---- MODULE Spec2Model ----
(***************************************************************************)
(* The sonarwhal CLI wizards of packages/sonarwhal/src/lib/cli/wizards:    *)
(*   - newRule, the generator of a new rule package (prompts, the          *)
(*     RulePackage/NewRule entities, the static copies and the templated   *)
(*     files of generateRuleFiles);                                        *)
(*   - the init wizard that writes .sonarwhalrc;                           *)
(*   - the constructors NewRule and RulePackage applied to any answers;    *)
(*   - the event loop of the new-parser wizard.                            *)
(* Strings whose characters matter (names) are sequences of one-character  *)
(* strings.  An asynchronous call is an operation that is first issued and *)
(* later completes or fails; the operations of one Promise.all are issued  *)
(* together and complete in any order.                                     *)
(***************************************************************************)
EXTENDS Integers, Sequences, FiniteSets, TLC

VARIABLES
    pc,          \* position of newRule: start, askMain, isOfficial, askRules, build, run, done
    newRuleFlag, \* actions.newRule
    results,     \* answers of the main prompt, with official and rules added
    rules,       \* the array askRules pushes to
    asked,       \* number of prompt rounds of questions(QuestionsType.rule) answered
    prompts,     \* the calls of inquirer.prompt, in order: "main" or "rule"
    rulePackage, \* the RulePackage entity, Null before it is built
    cursor,      \* the next await of newRule / generateRuleFiles to issue
    issued,      \* filesystem and template operations, in the order issued
    done,        \* operations that completed
    failed,      \* operations that failed
    disk,        \* templated files on disk: path -> the entry whose text it holds
    dirs,        \* directories mkdirp created
    copied,      \* static trees copied to the destination
    ret,         \* what newRule returned: "none" while running, "true", "false"
    \* the init wizard
    wpc,             \* position: start, extendConfig, customConfig, result, write, install, done
    configType,      \* the answer to the initial question
    configPackages,  \* what getOfficialPackages(configuration) returned
    connectorKeys,   \* installed and core connectors
    formattersKeys,  \* installed and core formatters
    parsersKeys,     \* installed and core parsers
    rulesKeys,       \* installed and core rules
    answers,         \* the answers to the questions of extendConfig or customConfig
    result,          \* what extendConfig or customConfig returned
    rcFile,          \* the text of .sonarwhalrc on disk, Null when there is none
    writes,          \* calls of fs.writeFile
    installs,        \* calls of installPackages, each with its packages
    installed,       \* the configurations getInstalledResources found
    errors,          \* the resource types anyResources logged an error for
    wret,            \* what the wizard returned: "none", "true", "false", "throw"
    \* a constructor applied to answers
    bpc,             \* position: idle, start, item, package, threw
    binput,          \* the answers the constructor was given
    boutput,         \* the entity it built, Null when it threw
    \* the event loop of the new-parser wizard
    ppc,             \* position: idle, info, events, build, done
    eventList,       \* the events offered as choices in the next round
    eventsSelected,  \* the rounds collected
    offered,         \* the choices and the answer of each round asked, in order
    parserEvents,    \* the names of the events handed to the templates
    \* the module of the new-rule wizard
    eventsMap        \* the Map events: use case -> the events of the use case

genVars == <<pc, newRuleFlag, results, rules, asked, prompts, rulePackage, cursor,
             issued, done, failed, disk, dirs, copied, ret>>

initVars == <<wpc, configType, configPackages, connectorKeys, formattersKeys,
              parsersKeys, rulesKeys, answers, result, rcFile, writes, installs,
              installed, errors, wret>>

buildVars == <<bpc, binput, boutput>>

parserVars == <<ppc, eventList, eventsSelected, offered, parserEvents>>

registryVars == <<eventsMap>>

auxVars == <<buildVars, parserVars, registryVars>>

vars == <<genVars, initVars, buildVars, parserVars, registryVars>>

----------------------------------------------------------------------------
(* Bounds of the model *)

\* most rounds of "Want to add more rules?" the operator answers
MaxRounds == 2

\* most resources of one type found installed or published
MaxResources == 2

\* most characters of a description given to a constructor
MaxLen == 3

\* most rounds of the event question of the new-parser wizard
MaxEventRounds == 3

----------------------------------------------------------------------------
(* Values *)

\* null, where an object is expected
Null == [null |-> TRUE]
\* a key an answers object does not hold (undefined)
Absent == "absent"

Range(s) == {s[i] : i \in 1..Len(s)}

\* names the operator types
DisplayNames == {<<"a">>, <<"A", " ", "x">>, <<"i", "n", "d", "e", "x">>}

\* the use cases the operator picks for a single rule: every choice of the
\* list useCases
AnsweredUseCases == {"dom", "request", "thirdPartyService", "jsInjection"}

\* the use cases the operator picks in the rounds of a multi package
RoundUseCases == {"dom"}

\* values of the confirm "again": the booleans, written as strings, and Absent
\* when the answers hold no such key
AgainValues == {"true", "false", Absent}

----------------------------------------------------------------------------
(* utils/misc: normalizeStringByDelimiter *)

toLowerCase(c) == IF c = "A" THEN "a" ELSE c

IsAlphanumeric(c) == c \in {"a", "d", "e", "i", "n", "x", "r", "u", "l"}

\* normalizeStringByDelimiter that replaces each character by itself and drops
\* one delimiter at the end
normalizeDroppingLastDelimiter(value, delimiter) ==
    LET replaced == [i \in 1..Len(value) |->
                        IF IsAlphanumeric(toLowerCase(value[i]))
                        THEN toLowerCase(value[i]) ELSE delimiter]
    IN  IF replaced # <<>> /\ replaced[Len(replaced)] = delimiter
        THEN SubSeq(replaced, 1, Len(replaced) - 1)
        ELSE replaced

\* lower-cases value and replaces every run of delimiter characters by one
\* delimiter
RECURSIVE normalizeStringByDelimiter(_, _)
normalizeStringByDelimiter(value, delimiter) ==
    IF value = <<>> THEN <<>>
    ELSE LET c    == IF IsAlphanumeric(toLowerCase(Head(value)))
                     THEN toLowerCase(Head(value)) ELSE delimiter
             rest == normalizeStringByDelimiter(Tail(value), delimiter)
         IN  IF c = delimiter /\ rest # <<>> /\ Head(rest) = delimiter
             THEN rest
             ELSE <<c>> \o rest

----------------------------------------------------------------------------
(* utils/misc: toCamelCase, toPascalCase *)

toUpperCase(c) ==
    CASE c = "a" -> "A" [] c = "d" -> "D" [] c = "e" -> "E" [] c = "i" -> "I"
      [] c = "n" -> "N" [] c = "x" -> "X" [] c = "r" -> "R" [] c = "u" -> "U"
      [] c = "l" -> "L" [] OTHER -> c

IsLetter(c) == toUpperCase(c) # c \/ toLowerCase(c) # c

\* every hyphen that a letter follows is dropped and the letter upper-cased
RECURSIVE toCamelCase(_)
toCamelCase(value) ==
    IF value = <<>> THEN <<>>
    ELSE IF Head(value) = "-" /\ Len(value) > 1 /\ IsLetter(value[2])
         THEN <<toUpperCase(value[2])>> \o toCamelCase(Tail(Tail(value)))
         ELSE <<Head(value)>> \o toCamelCase(Tail(value))

\* the camel case of value with its first character upper-cased
toPascalCase(value) ==
    LET camelCased == toCamelCase(value)
    IN  IF camelCased = <<>> THEN <<>>
        ELSE <<toUpperCase(Head(camelCased))>> \o Tail(camelCased)

----------------------------------------------------------------------------
(* utils/handlebars: escapeSafeString *)

\* the characters backtick and backslash
Backtick == "BACKTICK"
Backslash == "BACKSLASH"

\* str.replace of every backtick by a backslash and the backtick
RECURSIVE escapeSafeString(_)
escapeSafeString(str) ==
    IF str = <<>> THEN <<>>
    ELSE (IF Head(str) = Backtick THEN <<Backslash, Backtick>> ELSE <<Head(str)>>)
         \o escapeSafeString(Tail(str))

----------------------------------------------------------------------------
(* new-rule: the entities *)

\* the map that matches use cases with events
events ==
    [dom               |-> <<"ElementFound">>,
     request           |-> <<"FetchStart", "FetchEnd", "FetchError">>,
     thirdPartyService |-> <<"FetchStart", "FetchEnd">>,
     jsInjection       |-> <<"ScanEnd">>]

\* the module is loaded: the Map is constructed
RegistryInit == eventsMap = events

\* getEventsByUseCase with the array of the entry reversed
getEventsByUseCaseReversed(useCase) ==
    [i \in 1..Len(eventsMap[useCase]) |->
        eventsMap[useCase][Len(eventsMap[useCase]) + 1 - i]]

\* events.get(useCase).join(', '): the events in the order of the map's entry
\* (the separators carry nothing and are left out)
getEventsByUseCase(useCase) == eventsMap[useCase]

\* events.get(useCase) is undefined, and .join throws
getEventsByUseCaseThrows(useCase) == useCase \notin DOMAIN eventsMap

\* category || Category.other
categoryOrOther(category) == IF category = Absent THEN "other" ELSE category

\* useCaseFlags with dom initialised to true
useCaseFlagsDomSet(useCase) ==
    [u \in {"dom", "jsInjection", "request", "thirdPartyService"} \cup {useCase}
        |-> u = useCase \/ u = "dom"]

\* this.useCase = { dom: false, jsInjection: false, request: false,
\* thirdPartyService: false }; this.useCase[ruleData.useCase] = true
useCaseFlags(useCase) ==
    [u \in {"dom", "jsInjection", "request", "thirdPartyService"} \cup {useCase}
        |-> u = useCase]

\* className without the name of the parent
classNameNoPrefix(parentName, normalizedName) ==
    toPascalCase(normalizedName) \o <<"Rule">>

\* `${parentName ? toPascalCase(parentName) : ''}${toPascalCase(normalizedName)}Rule`
className(parentName, normalizedName) ==
    (IF parentName # <<>> THEN toPascalCase(parentName) ELSE <<>>)
    \o toPascalCase(normalizedName) \o <<"Rule">>

\* new NewRule(ruleData, parentName); parentName is empty when not given
NewRule(ruleData, parentName) ==
    [name           |-> ruleData.name,
     normalizedName |-> normalizeStringByDelimiter(ruleData.name, "-"),
     className      |-> className(parentName,
                                  normalizeStringByDelimiter(ruleData.name, "-")),
     category       |-> categoryOrOther(ruleData.category),
     description    |-> escapeSafeString(ruleData.description),
     elementType    |-> ruleData.elementType,
     events         |-> getEventsByUseCase(ruleData.useCase),
     useCase        |-> useCaseFlags(ruleData.useCase),
     scope          |-> ruleData.scope,
     parentName     |-> parentName]

\* path.join(process.cwd(), `rule-${normalizedName}`)
destinationOf(normalizedName) ==
    [cwd |-> "cwd", folder |-> <<"r", "u", "l", "e", "-">> \o normalizedName]

\* packagePrefix with the prefix of a package that is not official for all
packagePrefixUnscoped(official) == <<"sonarwhal", "-">>

\* the prefix of package.json#name, '@sonarwhal/' or 'sonarwhal-': the word
\* and the character that ends it
packagePrefix(official) ==
    IF official THEN <<"@sonarwhal", "/">> ELSE <<"sonarwhal", "-">>

\* packageRules with each rule put in front of the earlier ones
packageRulesUnshifted(data, normalizedName) ==
    IF data.multi
    THEN [i \in 1..Len(data.rules) |->
             NewRule(data.rules[Len(data.rules) + 1 - i], normalizedName)]
    ELSE <<NewRule(data, <<>>)>>

\* this.rules: a NewRule pushed for each of data.rules when the package is
\* multi, one NewRule of data itself otherwise
packageRules(data, normalizedName) ==
    IF data.multi
    THEN [i \in 1..Len(data.rules) |-> NewRule(data.rules[i], normalizedName)]
    ELSE <<NewRule(data, <<>>)>>

\* new RulePackage(data)
RulePackage(data) ==
    LET normalizedName == normalizeStringByDelimiter(data.name, "-")
    IN  [name           |-> data.name,
         isMulti        |-> data.multi,
         normalizedName |-> normalizedName,
         description    |-> escapeSafeString(data.description),
         official       |-> data.official,
         packageMain    |-> "dist/src/index.js",
         packageName    |-> packagePrefix(data.official)
                            \o <<"r", "u", "l", "e", "-">> \o normalizedName,
         rules          |-> packageRules(data, normalizedName),
         destination    |-> destinationOf(normalizedName)]

\* a constructor of the package throws
RulePackageThrows(data) ==
    IF data.multi
    THEN \E i \in 1..Len(data.rules) : getEventsByUseCaseThrows(data.rules[i].useCase)
    ELSE getEventsByUseCaseThrows(data.useCase)

----------------------------------------------------------------------------
(* new-rule: the questions *)

\* elementTypeAsked with the question shown whatever the use case
elementTypeAskedAlways(useCase) == TRUE

\* when of the question elementType: answers.useCase === 'dom'
elementTypeAsked(useCase) == useCase = "dom"

\* the answers inquirer gives to questions(QuestionsType.main): category, use
\* case and scope are asked when the package is not multi, the element type
\* when the use case is dom, again never
MainAnswers ==
    {[multi |-> TRUE, name |-> n, description |-> <<"d", Backtick>>,
      category |-> Absent, useCase |-> Absent, elementType |-> Absent,
      scope |-> Absent] : n \in DisplayNames}
    \cup
    {[multi |-> FALSE, name |-> n, description |-> <<"d", Backtick>>,
      category |-> "security", useCase |-> u,
      elementType |-> IF elementTypeAsked(u) THEN "div" ELSE Absent,
      scope |-> "any"] : n \in DisplayNames, u \in AnsweredUseCases}

\* the answers to questions(QuestionsType.rule): multi is not asked, so every
\* other question is
RuleAnswers ==
    {[name |-> n, description |-> <<"d">>,
      category |-> "security", useCase |-> u,
      elementType |-> IF elementTypeAsked(u) THEN "div" ELSE Absent,
      scope |-> "any", again |-> a] :
        n \in DisplayNames, u \in RoundUseCases, a \in AgainValues}

\* use cases that are no key of the Map: no answer, and a value that is none
\* of the choices
UnlistedUseCases == {Absent, "other"}

\* what inquirer.prompt resolves with when it is not the list of useCases
\* that gives the use case (the prompt is a module newRule imports, and
\* nothing between the prompt and the constructors looks at the answer): the
\* answers of a rule with no use case or with one that is no choice
UnlistedMainAnswers ==
    {[multi |-> FALSE, name |-> <<"a">>, description |-> <<"d", Backtick>>,
      category |-> "security", useCase |-> u,
      elementType |-> IF elementTypeAsked(u) THEN "div" ELSE Absent,
      scope |-> "any"] : u \in UnlistedUseCases}

\* the same for a round of a multi package
UnlistedRuleAnswers ==
    {[name |-> <<"a">>, description |-> <<"d">>,
      category |-> "security", useCase |-> u,
      elementType |-> IF elementTypeAsked(u) THEN "div" ELSE Absent,
      scope |-> "any", again |-> "false"] : u \in UnlistedUseCases}

\* askRules called whatever the answer to multi
asksRulesAlways(results_) == TRUE

\* if (results.multi): whether newRule calls askRules
asksRules(results_) == results_.answers.multi

\* askAgain that calls askRules again whatever the answer
askAgainAlways(rule) == TRUE

\* askAgain with a test that takes a missing answer for a yes
askAgainUnlessNo(rule) == rule.again # "false"

\* if (rule.again): only true is truthy among the values of again
askAgain(rule) == rule.again = "true"

----------------------------------------------------------------------------
(* new-rule: the files of generateRuleFiles *)

\* path.join(destination, dir, `${base}.${ext}`); dir "." is the destination
Path(destination, dir, base, ext) ==
    [destination |-> destination, dir |-> dir, base |-> base, ext |-> ext]

\* path.dirname of such a path
dirname(p) == [destination |-> p.destination, dir |-> p.dir]

\* the local default-configuration file of a package that is not official
configFile(destination) ==
    [destination |-> Path(destination, ".", <<>>, "sonarwhalrc"),
     path        |-> "shared-templates/config.hbs"]

commonFiles(destination, data) ==
    << [destination |-> Path(destination, "src", <<"i", "n", "d", "e", "x">>, "ts"),
        path        |-> "new-rule/index.ts.hbs"],
       [destination |-> Path(destination, ".", <<"R", "E", "A", "D", "M", "E">>, "md"),
        path        |-> "new-rule/readme.md.hbs"],
       [destination |-> Path(destination, ".", <<"t", "s", "c", "o", "n", "f", "i", "g">>, "json"),
        path        |-> "shared-templates/tsconfig.json.hbs"],
       [destination |-> Path(destination, ".", <<"p", "a", "c", "k", "a", "g", "e">>, "json"),
        path        |-> "shared-templates/package.hbs"] >>
    \o (IF ~data.official THEN <<configFile(destination)>> ELSE <<>>)

ruleFile(destination) ==
    [destination |-> [destination |-> destination, dir |-> "src"],
     path        |-> "new-rule/rule.ts.hbs"]

testFile(destination) ==
    [destination |-> [destination |-> destination, dir |-> "tests"],
     path        |-> "new-rule/tests.ts.hbs"]

docFile(destination) ==
    [destination |-> [destination |-> destination, dir |-> "docs"],
     path        |-> "new-rule/rule-doc.hbs"]

rulePath(destination, rule) ==
    Path(destination, ruleFile(destination).destination.dir, rule.normalizedName, "ts")

testPath(destination, rule) ==
    Path(destination, testFile(destination).destination.dir, rule.normalizedName, "ts")

docPath(destination, rule) ==
    Path(destination, docFile(destination).destination.dir, rule.normalizedName, "md")

\* the documentation generated for every package
withDocsAlways(data) == TRUE

\* the documentation generated for no package
withDocsNever(data) == FALSE

\* whether the documentation of each rule is generated
withDocs(data) == data.isMulti

\* the static trees copyFiles copies: the tree of a package that is not
\* official, and the tree of every package
NoOfficialFiles == 1
Files == 2

\* the no-official-files tree copied for every package
copiesNoOfficialFilesAlways(data) == TRUE

\* whether newRule copies the no-official-files tree
copiesNoOfficialFiles(data) == ~data.official

----------------------------------------------------------------------------
(* new-rule: the asynchronous operations *)

\* One awaited call.  type: copy, render (compileTemplate), mkdir or write;
\* grp: static, common, rule, test or doc; idx: the tree, the index in
\* commonFiles or the index in data.rules
Op(type, grp, idx) == [type |-> type, grp |-> grp, idx |-> idx]

\* the file an operation of generateRuleFiles is about
TargetPath(op, data) ==
    CASE op.grp = "common" -> commonFiles(data.destination, data)[op.idx].destination
      [] op.grp = "rule"   -> rulePath(data.destination, data.rules[op.idx])
      [] op.grp = "test"   -> testPath(data.destination, data.rules[op.idx])
      [] op.grp = "doc"    -> docPath(data.destination, data.rules[op.idx])

TemplateOf(op, data) ==
    CASE op.grp = "common" -> commonFiles(data.destination, data)[op.idx].path
      [] op.grp = "rule"   -> ruleFile(data.destination).path
      [] op.grp = "test"   -> testFile(data.destination).path
      [] op.grp = "doc"    -> docFile(data.destination).path

\* what compileTemplate returns for the entry: the template applied to the
\* package (0) or to the rule of that index
compileTemplate(op, data) ==
    [template |-> TemplateOf(op, data),
     data     |-> IF op.grp = "common" THEN 0 ELSE op.idx]

\* the awaits of newRule after the package is built, in order
FirstCursor(data) ==
    [grp  |-> "static",
     idx  |-> IF copiesNoOfficialFiles(data) THEN NoOfficialFiles ELSE Files,
     step |-> "copy"]

EndCursor == [grp |-> "end", idx |-> 0, step |-> "end"]

\* the first await of the rule at index idx, or the end after the last rule
RuleCursor(idx, data) ==
    IF idx <= Len(data.rules)
    THEN [grp |-> "rule", idx |-> idx, step |-> "render"]
    ELSE EndCursor

NextCursor(c, data) ==
    CASE c.grp = "static" ->
            IF c.idx = NoOfficialFiles
            THEN [grp |-> "static", idx |-> Files, step |-> "copy"]
            ELSE [grp |-> "common", idx |-> 1, step |-> "render"]
      [] c.grp = "common" ->
            IF c.step = "render" THEN [c EXCEPT !.step = "mkdir"]
            ELSE IF c.step = "mkdir" THEN [c EXCEPT !.step = "write"]
            ELSE IF c.idx < Len(commonFiles(data.destination, data))
                 THEN [grp |-> "common", idx |-> c.idx + 1, step |-> "render"]
                 ELSE RuleCursor(1, data)
      [] c.grp = "rule" ->
            IF c.step = "render" THEN [c EXCEPT !.step = "mkdir"]
            ELSE IF c.step = "mkdir" THEN [c EXCEPT !.step = "write"]
            ELSE IF withDocs(data)
                 THEN [grp |-> "doc", idx |-> c.idx, step |-> "render"]
                 ELSE RuleCursor(c.idx + 1, data)
      [] c.grp = "doc" ->
            IF c.step = "render" THEN [c EXCEPT !.step = "mkdir"]
            ELSE IF c.step = "mkdir" THEN [c EXCEPT !.step = "write"]
            ELSE RuleCursor(c.idx + 1, data)

\* the operations one await issues: one call, or the calls of a Promise.all
\* in the order of its array
OpsAt(c) ==
    CASE c.grp = "static" -> <<Op("copy", "static", c.idx)>>
      [] c.grp = "common" -> <<Op(c.step, "common", c.idx)>>
      [] c.grp = "rule"   -> <<Op(c.step, "rule", c.idx), Op(c.step, "test", c.idx)>>
      [] c.grp = "doc"    -> <<Op(c.step, "doc", c.idx)>>

\* operations issued and neither completed nor failed
Pending == Range(issued) \ (done \cup failed)

\* two operations of the same await: the same call, or the two calls of one
\* Promise.all
SameAwait(a, b) ==
    /\ a.type = b.type
    /\ a.idx = b.idx
    /\ a.grp = b.grp \/ {a.grp, b.grp} = {"rule", "test"}

\* an await that resumes when the first call of its Promise.all has completed
AwaitResumesOnFirst ==
    \/ Pending = {}
    \/ \E op \in done : SameAwait(op, issued[Len(issued)])

\* an await resumes when its call, or every call of its Promise.all, has
\* completed
AwaitResumes == Pending = {}

\* a catch block that logs the error and throws it again
CaughtRethrows == [pc |-> "done", ret |-> "throw"]

\* a catch block that swallows the error, the function going on
CaughtGoesOn == [pc |-> "run", ret |-> "none"]

\* a catch block that logs the error and returns true
CaughtReturnsTrue == [pc |-> "done", ret |-> "true"]

\* where newRule goes when an awaited operation fails: the catch block
\* logs the error and returns false
Caught == [pc |-> "done", ret |-> "false"]

----------------------------------------------------------------------------
(* init: the wizard that writes .sonarwhalrc *)

defaultFormatter == "summary"

\* the resources there may be, in the order they are found
ConfigurationCatalogue ==
    << [scope |-> "@sonarwhal", name |-> <<"configuration-", "web-recommended">>],
       [scope |-> "@sonarwhal", name |-> <<"configuration-", "progressive-web-apps">>],
       [scope |-> "@sonarwhal", name |-> <<"configuration-", "development">>] >>
ConnectorCatalogue == <<"jsdom", "chrome", "local">>
FormatterCatalogue == <<"summary", "json", "stylish">>
ParserCatalogue == <<"javascript", "typescript-config", "manifest">>
RuleCatalogue == <<"axe", "no-bom", "content-type">>

\* the first n resources of a catalogue, for every n up to the bound
Found(catalogue) == {SubSeq(catalogue, 1, n) : n \in 0..MaxResources}

\* the sequences that list a subset of the choices once each, in the order of
\* the choices: what a checkbox question answers
RECURSIVE Checked(_)
Checked(choices) ==
    IF choices = <<>> THEN {<<>>}
    ELSE LET rest == Checked(Tail(choices))
         IN  rest \cup {<<Head(choices)>> \o r : r \in rest}

\* anyResources(resources, type): whether the array is not empty
anyResources(resources) == Len(resources) > 0

\* nameSplitted[1].replace('configuration-', ''): the part after the scope
\* without its first 'configuration-'
getConfigurationName(pkgName) ==
    LET part == pkgName.name
        hits == {i \in 1..Len(part) : part[i] = "configuration-"}
    IN  IF hits = {} THEN part
        ELSE LET first == CHOOSE i \in hits : \A j \in hits : i <= j
             IN  SubSeq(part, 1, first - 1) \o SubSeq(part, first + 1, Len(part))

\* what generateBrowserslistConfig may return
BrowserslistConfigs == {<<>>, <<"defaults">>}

\* the object customConfig builds from the answers and the browsers list
customSonarwhalConfig(results_, browserslist) ==
    [browserslist |-> browserslist,
     connector    |-> [name |-> results_.connector, options |-> [waitFor |-> 1000]],
     extends      |-> <<>>,
     formatters   |-> <<results_.formatter>>,
     ignoredUrls  |-> <<>>,
     rules        |-> [r \in Range(results_.rules) |-> "error"],
     rulesTimeout |-> 120000]

\* customUnavailable without the test of the rules
customUnavailableRulesForgotten(connectors, formatters, rules_) ==
    \/ ~anyResources(connectors)
    \/ ~anyResources(formatters)

\* whether customConfig gives up: a required type of resource has none
customUnavailable(connectors, formatters, rules_) ==
    \/ ~anyResources(connectors)
    \/ ~anyResources(formatters)
    \/ ~anyResources(rules_)

\* the first type customConfig finds empty: the || stops at it, and only it
\* is logged
customLogged(connectors, formatters, rules_) ==
    IF ~anyResources(connectors) THEN {"connector"}
    ELSE IF ~anyResources(formatters) THEN {"formatter"}
    ELSE IF ~anyResources(rules_) THEN {"rule"}
    ELSE {}

\* needsInstall without the test of isInstalled
needsInstallAlways(result_, installed_) ==
    /\ "packages" \in DOMAIN result_
    /\ Len(result_.packages) > 0

\* whether the wizard installs the packages after the file is written
needsInstall(result_, installed_) ==
    /\ "packages" \in DOMAIN result_
    /\ Len(result_.packages) > 0
    /\ getConfigurationName(result_.packages[1]) \notin installed_

WizardIdle ==
    /\ wpc = "idle"
    /\ configType = "none"
    /\ configPackages = <<>>
    /\ connectorKeys = <<>>
    /\ formattersKeys = <<>>
    /\ parsersKeys = <<>>
    /\ rulesKeys = <<>>
    /\ answers = Null
    /\ result = Null
    /\ rcFile = Null
    /\ writes = 0
    /\ installs = <<>>
    /\ installed = {}
    /\ errors = {}
    /\ wret = "none"

BuilderIdle ==
    /\ bpc = "idle"
    /\ binput = Null
    /\ boutput = Null

ParserIdle ==
    /\ ppc = "idle"
    /\ eventList = <<>>
    /\ eventsSelected = <<>>
    /\ offered = <<>>
    /\ parserEvents = <<>>

GeneratorIdle ==
    /\ pc = "idle"
    /\ newRuleFlag = FALSE
    /\ results = Null
    /\ rules = <<>>
    /\ asked = 0
    /\ prompts = <<>>
    /\ rulePackage = Null
    /\ cursor = EndCursor
    /\ issued = <<>>
    /\ done = {}
    /\ failed = {}
    /\ disk = {}
    /\ dirs = {}
    /\ copied = {}
    /\ ret = "none"

WizardInit ==
    /\ RegistryInit
    /\ GeneratorIdle
    /\ BuilderIdle
    /\ ParserIdle
    /\ wpc = "start"
    /\ configType = "none"
    /\ configPackages = <<>>
    /\ connectorKeys = <<>>
    /\ formattersKeys = <<>>
    /\ parsersKeys = <<>>
    /\ rulesKeys = <<>>
    /\ answers = Null
    /\ result = Null
    /\ rcFile = Null
    /\ writes = 0
    /\ installs = <<>>
    /\ installed \in {{<<"web-recommended">>}, {}}
    /\ errors = {}
    /\ wret = "none"

\* initialAnswer = await inquirer.prompt(initialQuestion)
InitialQuestion ==
    /\ wpc = "start"
    /\ \E type \in {"predefined", "custom"} :
          /\ configType' = type
          /\ wpc' = IF type = "predefined" THEN "extendConfig" ELSE "customConfig"
    /\ UNCHANGED <<configPackages, connectorKeys, formattersKeys, parsersKeys,
                   rulesKeys, answers, result, rcFile, writes, installs,
                   installed, errors, wret>>
    /\ UNCHANGED genVars
    /\ UNCHANGED auxVars

\* extendConfig()
extendConfig ==
    /\ wpc = "extendConfig"
    /\ \E packages \in Found(ConfigurationCatalogue) :
          /\ configPackages' = packages
          /\ IF ~anyResources(packages)
             THEN /\ errors' = errors \cup {"configuration"}
                  /\ result' = Null
                  /\ answers' = answers
             ELSE /\ errors' = errors
                  /\ \E configuration \in Range(packages) :
                        /\ answers' = [configuration |-> configuration]
                        /\ result' =
                              [config   |-> [extends |-> <<getConfigurationName(configuration)>>],
                               packages |-> <<configuration>>]
    /\ wpc' = "result"
    /\ UNCHANGED <<configType, connectorKeys, formattersKeys, parsersKeys,
                   rulesKeys, rcFile, writes, installs, installed, wret>>
    /\ UNCHANGED genVars
    /\ UNCHANGED auxVars

\* customConfig()
customConfig ==
    /\ wpc = "customConfig"
    /\ \E connectors \in Found(ConnectorCatalogue),
          formatters \in Found(FormatterCatalogue),
          parsers \in Found(ParserCatalogue),
          rules_ \in Found(RuleCatalogue) :
          /\ connectorKeys' = connectors
          /\ formattersKeys' = formatters
          /\ parsersKeys' = parsers
          /\ rulesKeys' = rules_
          /\ errors' = errors \cup customLogged(connectors, formatters, rules_)
          /\ IF customUnavailable(connectors, formatters, rules_)
             THEN /\ result' = Null
                  /\ answers' = answers
             ELSE \E connector \in Range(connectors),
                     formatter \in Range(formatters),
                     checkedRules \in Checked(rules_),
                     checkedParsers \in Checked(parsers),
                     browserslist \in BrowserslistConfigs :
                     /\ answers' = [connector |-> connector,
                                    formatter |-> formatter,
                                    rules     |-> checkedRules,
                                    parsers   |-> IF Len(parsers) > 0
                                                  THEN checkedParsers ELSE <<Absent>>]
                     /\ result' = [config |-> customSonarwhalConfig(answers', browserslist)]
    /\ wpc' = "result"
    /\ UNCHANGED <<configType, configPackages, rcFile, writes, installs,
                   installed, wret>>
    /\ UNCHANGED genVars
    /\ UNCHANGED auxVars

\* if (!result) return false; otherwise fs.writeFile is called
CheckResult ==
    /\ wpc = "result"
    /\ IF result = Null
       THEN /\ wret' = "false"
            /\ wpc' = "done"
            /\ writes' = writes
       ELSE /\ wret' = wret
            /\ wpc' = "write"
            /\ writes' = writes + 1
    /\ UNCHANGED <<configType, configPackages, connectorKeys, formattersKeys,
                   parsersKeys, rulesKeys, answers, result, rcFile, installs,
                   installed, errors>>
    /\ UNCHANGED genVars
    /\ UNCHANGED auxVars

\* the write of .sonarwhalrc completes: the wizard returns true, or calls
\* installPackages first
WriteFileDone ==
    /\ wpc = "write"
    /\ rcFile' = result.config
    /\ IF needsInstall(result, installed)
       THEN /\ installs' = Append(installs, result.packages)
            /\ wpc' = "install"
            /\ wret' = wret
       ELSE /\ installs' = installs
            /\ wpc' = "done"
            /\ wret' = "true"
    /\ UNCHANGED <<configType, configPackages, connectorKeys, formattersKeys,
                   parsersKeys, rulesKeys, answers, result, writes, installed, errors>>
    /\ UNCHANGED genVars
    /\ UNCHANGED auxVars

\* the write fails: nothing catches the rejection
WriteFileFails ==
    /\ wpc = "write"
    /\ wpc' = "done"
    /\ wret' = "throw"
    /\ UNCHANGED <<configType, configPackages, connectorKeys, formattersKeys,
                   parsersKeys, rulesKeys, answers, result, rcFile, writes,
                   installs, installed, errors>>
    /\ UNCHANGED genVars
    /\ UNCHANGED auxVars

\* installPackages returns
InstallDone ==
    /\ wpc = "install"
    /\ wpc' = "done"
    /\ wret' = "true"
    /\ UNCHANGED <<configType, configPackages, connectorKeys, formattersKeys,
                   parsersKeys, rulesKeys, answers, result, rcFile, writes,
                   installs, installed, errors>>
    /\ UNCHANGED genVars
    /\ UNCHANGED auxVars

\* installPackages throws
InstallFails ==
    /\ wpc = "install"
    /\ wpc' = "done"
    /\ wret' = "throw"
    /\ UNCHANGED <<configType, configPackages, connectorKeys, formattersKeys,
                   parsersKeys, rulesKeys, answers, result, rcFile, writes,
                   installs, installed, errors>>
    /\ UNCHANGED genVars
    /\ UNCHANGED auxVars

WizardNext ==
    \/ InitialQuestion
    \/ extendConfig
    \/ customConfig
    \/ CheckResult
    \/ WriteFileDone
    \/ WriteFileFails
    \/ InstallDone
    \/ InstallFails

WizardSpec == WizardInit /\ [][WizardNext]_vars

----------------------------------------------------------------------------
(* new-rule: newRule *)

Init ==
    /\ RegistryInit
    /\ pc = "start"
    /\ newRuleFlag \in BOOLEAN
    /\ results = Null
    /\ rules = <<>>
    /\ asked = 0
    /\ prompts = <<>>
    /\ rulePackage = Null
    /\ cursor = EndCursor
    /\ issued = <<>>
    /\ done = {}
    /\ failed = {}
    /\ disk = {}
    /\ dirs = {}
    /\ copied = {}
    /\ ret = "none"
    /\ WizardIdle
    /\ BuilderIdle
    /\ ParserIdle

\* if (!actions.newRule) return false
NotNewRule ==
    /\ pc = "start"
    /\ ~newRuleFlag
    /\ pc' = "done"
    /\ ret' = "false"
    /\ UNCHANGED <<newRuleFlag, prompts, results, rules, asked, rulePackage, cursor,
                   issued, done, failed, disk, dirs, copied>>
    /\ UNCHANGED initVars
    /\ UNCHANGED auxVars

\* results = await inquirer.prompt(questions(QuestionsType.main))
AskMain ==
    /\ pc = "start"
    /\ newRuleFlag
    /\ \E main \in MainAnswers \cup UnlistedMainAnswers :
          results' = [answers |-> main, rules |-> <<>>]
    /\ prompts' = Append(prompts, "main")
    /\ pc' = "isOfficial"
    /\ UNCHANGED <<newRuleFlag, rules, asked, rulePackage, cursor,
                   issued, done, failed, disk, dirs, copied, ret>>
    /\ UNCHANGED initVars
    /\ UNCHANGED auxVars

\* results.official = await isOfficial()
IsOfficial ==
    /\ pc = "isOfficial"
    /\ \E official \in BOOLEAN :
          results' = [answers |-> results.answers, official |-> official,
                      rules |-> results.rules]
    /\ pc' = IF asksRules(results) THEN "askRules" ELSE "build"
    /\ UNCHANGED <<newRuleFlag, prompts, rules, asked, rulePackage, cursor,
                   issued, done, failed, disk, dirs, copied, ret>>
    /\ UNCHANGED initVars
    /\ UNCHANGED auxVars

\* one call of askRules: a round of questions(QuestionsType.rule), the push,
\* and the recursion when the operator wants more rules
AskRules ==
    /\ pc = "askRules"
    /\ Len(rules) < MaxRounds
    /\ \E rule \in RuleAnswers \cup UnlistedRuleAnswers :
          /\ rule.again = "true" => Len(rules) + 1 < MaxRounds
          /\ rules' = Append(rules, rule)
          /\ pc' = IF askAgain(rule) THEN "askRules" ELSE "build"
    /\ asked' = asked + 1
    /\ prompts' = Append(prompts, "rule")
    /\ UNCHANGED <<newRuleFlag, results, rulePackage, cursor,
                   issued, done, failed, disk, dirs, copied, ret>>
    /\ UNCHANGED initVars
    /\ UNCHANGED auxVars

\* the data the RulePackage constructor reads: the main answers with
\* official and rules
PackageData(r) ==
    [name |-> r.answers.name, multi |-> r.answers.multi,
     description |-> r.answers.description, category |-> r.answers.category,
     useCase |-> r.answers.useCase, elementType |-> r.answers.elementType,
     scope |-> r.answers.scope, official |-> r.official, rules |-> r.rules]

\* results.rules = rules; rulePackage = new RulePackage(results)
Build ==
    /\ pc = "build"
    /\ results' = [results EXCEPT !.rules = rules]
    /\ IF RulePackageThrows(PackageData(results'))
       THEN /\ pc' = Caught.pc
            /\ ret' = Caught.ret
            /\ UNCHANGED <<rulePackage, cursor>>
       ELSE /\ rulePackage' = RulePackage(PackageData(results'))
            /\ cursor' = FirstCursor(rulePackage')
            /\ pc' = "run"
            /\ ret' = ret
    /\ UNCHANGED <<newRuleFlag, prompts, rules, asked, issued, done, failed, disk, dirs, copied>>
    /\ UNCHANGED initVars
    /\ UNCHANGED auxVars

\* newRule, or generateRuleFiles in it, reaches its next await: the call, or
\* the calls of the Promise.all, are issued
Issue ==
    /\ pc = "run"
    /\ AwaitResumes
    /\ cursor # EndCursor
    /\ issued' = issued \o OpsAt(cursor)
    /\ cursor' = NextCursor(cursor, rulePackage)
    /\ UNCHANGED <<pc, newRuleFlag, prompts, results, rules, asked, rulePackage,
                   done, failed, disk, dirs, copied, ret>>
    /\ UNCHANGED initVars
    /\ UNCHANGED auxVars

\* writeContent with ruleContent and testContent taken one for the other
writeContentSwapped(op, data) ==
    CASE op.grp = "rule" -> compileTemplate([op EXCEPT !.grp = "test"], data)
      [] op.grp = "test" -> compileTemplate([op EXCEPT !.grp = "rule"], data)
      [] OTHER           -> compileTemplate(op, data)

\* the text a writeFileAsync call is given: fileContent, ruleContent,
\* testContent or docContent, what compileTemplate returned for that entry
writeContent(op, data) == compileTemplate(op, data)

\* what a completed operation leaves on the file system
diskAfter(op, data, d) ==
    IF op.type = "write"
    THEN {e \in d : e.path # TargetPath(op, data)}
         \cup {[path |-> TargetPath(op, data), content |-> writeContent(op, data)]}
    ELSE d

\* mkdirTarget with the directory of the rule's source taken for its test too
mkdirTargetOfRulePath(op, data) ==
    IF op.grp = "test"
    THEN dirname(rulePath(data.destination, data.rules[op.idx]))
    ELSE dirname(TargetPath(op, data))

\* the directory a mkdirpAsync call creates: path.dirname of the file
mkdirTarget(op, data) == dirname(TargetPath(op, data))

dirsAfter(op, data, d) ==
    IF op.type = "mkdir" THEN d \cup {mkdirTarget(op, data)} ELSE d

copiedAfter(op, c) ==
    IF op.type = "copy" THEN c \cup {op.idx} ELSE c

\* packageAfter with the description escaped once more by each rendering of
\* a common file
packageAfterEscapedAgain(op, data) ==
    IF op.type = "render" /\ op.grp = "common"
    THEN [data EXCEPT !.description = escapeSafeString(@)]
    ELSE data

\* the package after an operation on it: fs.copy and mkdirp are given paths,
\* writeFileAsync a path and a text, and template(data) reads the package or
\* the rule it is given; none assigns to a field
packageAfter(op, data) == data

\* an issued operation completes
Complete ==
    \E op \in Pending :
        /\ done' = done \cup {op}
        /\ disk' = diskAfter(op, rulePackage, disk)
        /\ dirs' = dirsAfter(op, rulePackage, dirs)
        /\ copied' = copiedAfter(op, copied)
        /\ rulePackage' = packageAfter(op, rulePackage)
        /\ UNCHANGED <<pc, newRuleFlag, prompts, results, rules, asked,
                       cursor, issued, failed, ret>>
        /\ UNCHANGED initVars
        /\ UNCHANGED auxVars

\* an issued operation fails: the await of it (or of its Promise.all) throws
\* into the catch block of newRule, unless newRule has returned already
Fail ==
    \E op \in Pending :
        /\ failed' = failed \cup {op}
        /\ IF pc = "run"
           THEN pc' = Caught.pc /\ ret' = Caught.ret
           ELSE UNCHANGED <<pc, ret>>
        /\ UNCHANGED <<newRuleFlag, prompts, results, rules, asked, rulePackage,
                       cursor, issued, done, disk, dirs, copied>>
        /\ UNCHANGED initVars
        /\ UNCHANGED auxVars

\* generateRuleFiles returned: the instructions are logged, return true
Report ==
    /\ pc = "run"
    /\ AwaitResumes
    /\ cursor = EndCursor
    /\ pc' = "done"
    /\ ret' = "true"
    /\ UNCHANGED <<newRuleFlag, prompts, results, rules, asked, rulePackage, cursor,
                   issued, done, failed, disk, dirs, copied>>
    /\ UNCHANGED initVars
    /\ UNCHANGED auxVars

Next ==
    \/ NotNewRule
    \/ AskMain
    \/ IsOfficial
    \/ AskRules
    \/ Build
    \/ Issue
    \/ Complete
    \/ Fail
    \/ Report

Spec == Init /\ [][Next]_vars

AllSpec == (Init \/ WizardInit) /\ [][Next \/ WizardNext]_vars

\* newRule when every awaited call returns: the operator answers each
\* prompt, each copy, render, mkdir and write completes or fails, and the
\* event loop resumes newRule when what it awaits has settled
FairSpec ==
    /\ Spec
    /\ WF_vars(AskMain \/ IsOfficial \/ AskRules)
    /\ WF_vars(Complete \/ Fail)
    /\ WF_vars(NotNewRule \/ Build \/ Issue \/ Report)

----------------------------------------------------------------------------
(* new-rule: the constructors, applied to any answers *)

\* the strings of at most n characters over an alphabet
RECURSIVE Strings(_, _)
Strings(alphabet, n) ==
    IF n = 0 THEN {<<>>}
    ELSE LET shorter == Strings(alphabet, n - 1)
         IN  shorter \cup {<<c>> \o t : c \in alphabet, t \in shorter}

\* descriptions: not empty (validate: notEmpty), with backticks and
\* backslashes
Descriptions == Strings({"d", Backtick, Backslash}, MaxLen) \ {<<>>}

\* validate: notEmpty, value.trim() !== ''
notEmpty(value) == \E i \in 1..Len(value) : value[i] # " "

\* names as they may be typed: letters of both cases, spaces and hyphens, in
\* runs, in front and at the end
TypedNames == {n \in Strings({"a", "A", " ", "-"}, MaxLen) : notEmpty(n)}

\* use cases a caller may pass: the choices of the question, none, and a
\* value that is no choice
PassedUseCases == AnsweredUseCases \cup {Absent, "other"}

\* the answers a NewRule is constructed from
PassedRuleData ==
    {[name |-> n, description |-> d, category |-> c, useCase |-> u,
      elementType |-> IF elementTypeAsked(u) THEN "div" ELSE Absent, scope |-> "any"] :
        n \in DisplayNames, d \in Descriptions, c \in {"security", Absent},
        u \in PassedUseCases}
    \cup
    {[name |-> n, description |-> <<"d">>, category |-> "security", useCase |-> "dom",
      elementType |-> "div", scope |-> "any"] : n \in TypedNames}

\* the rounds a multi package is constructed from
PassedRounds ==
    LET round == {[name |-> <<"a">>, description |-> <<"d">>, category |-> "security",
                   useCase |-> u, elementType |-> IF elementTypeAsked(u) THEN "div" ELSE Absent,
                   scope |-> "any", again |-> "false"] : u \in {"dom", "request", Absent}}
    IN  {<<r>> : r \in round} \cup {<<r, q>> : r \in round, q \in round}

\* the answers a RulePackage is constructed from
PassedPackageData ==
    {[name |-> n, multi |-> FALSE, description |-> d, category |-> "security",
      useCase |-> u, elementType |-> IF elementTypeAsked(u) THEN "div" ELSE Absent,
      scope |-> "any", official |-> o, rules |-> <<>>] :
        n \in DisplayNames, d \in Descriptions, u \in PassedUseCases, o \in BOOLEAN}
    \cup
    {[name |-> n, multi |-> FALSE, description |-> <<"d">>, category |-> "security",
      useCase |-> "dom", elementType |-> "div",
      scope |-> "any", official |-> FALSE, rules |-> <<>>] : n \in TypedNames}
    \cup
    {[name |-> n, multi |-> TRUE, description |-> d, category |-> Absent,
      useCase |-> Absent, elementType |-> Absent,
      scope |-> Absent, official |-> o, rules |-> r] :
        n \in DisplayNames, d \in Descriptions, o \in BOOLEAN, r \in PassedRounds}

BuilderInit ==
    /\ RegistryInit
    /\ GeneratorIdle
    /\ WizardIdle
    /\ ParserIdle
    /\ bpc = "start"
    /\ binput = Null
    /\ boutput = Null

\* new NewRule(ruleData, parentName)
ConstructNewRule ==
    /\ bpc = "start"
    /\ \E ruleData \in PassedRuleData, parentName \in {<<>>, <<"a", "-", "x">>} :
          /\ binput' = [data |-> ruleData, parentName |-> parentName]
          /\ IF getEventsByUseCaseThrows(ruleData.useCase)
             THEN bpc' = "threw" /\ boutput' = Null
             ELSE bpc' = "item" /\ boutput' = NewRule(ruleData, parentName)
    /\ UNCHANGED <<genVars, initVars, parserVars, registryVars>>

\* new RulePackage(data)
ConstructRulePackage ==
    /\ bpc = "start"
    /\ \E data \in PassedPackageData :
          /\ binput' = [data |-> data, parentName |-> <<>>]
          /\ IF RulePackageThrows(data)
             THEN bpc' = "threw" /\ boutput' = Null
             ELSE bpc' = "package" /\ boutput' = RulePackage(data)
    /\ UNCHANGED <<genVars, initVars, parserVars, registryVars>>

BuilderNext ==
    \/ ConstructNewRule
    \/ ConstructRulePackage

BuilderSpec == BuilderInit /\ [][BuilderNext]_vars

----------------------------------------------------------------------------
(* new-parser: the loop that collects the events of the parser *)

\* the events the wizard offers at first, the one that takes an element
\* among them
ParserEvents == <<"fetch::end::*", "element::", "scan::end">>

ElementEvent == "element::"

\* the elements the operator names for the element event
Elements == {"div", "script"}

\* the answers of one round: the element is asked for the element event only
EventAnswers(choices) ==
    {[event |-> ev, element |-> el, again |-> a] :
        ev \in Range(choices) \ {ElementEvent}, el \in {Absent}, a \in AgainValues}
    \cup
    {[event |-> ev, element |-> el, again |-> a] :
        ev \in Range(choices) \cap {ElementEvent}, el \in Elements, a \in AgainValues}

\* the uniqueness key of a round: the pair of its event and its element
eventKey(round) == <<round.event, round.element>>

\* the name of the event in the data of the templates: the event, with its
\* element when it takes one
eventName(round) ==
    IF round.event = ElementEvent
    THEN <<round.event, round.element>>
    ELSE <<round.event>>

\* remainingChoices that takes no event out of the list
remainingChoicesAll(choices, round) == choices

\* the choices of the rounds after one: an event that takes no element is
\* offered no more once it is collected
remainingChoices(choices, round) ==
    IF round.event = ElementEvent
    THEN choices
    ELSE SelectSeq(choices, LAMBDA ev : ev # round.event)

\* the rounds collected after one more: a round whose key is there already
\* is dropped without a word
collected(selected, round) ==
    IF \E i \in 1..Len(selected) : eventKey(selected[i]) = eventKey(round)
    THEN selected
    ELSE Append(selected, round)

ParserInit ==
    /\ RegistryInit
    /\ GeneratorIdle
    /\ WizardIdle
    /\ BuilderIdle
    /\ ppc = "info"
    /\ eventList = <<>>
    /\ eventsSelected = <<>>
    /\ offered = <<>>
    /\ parserEvents = <<>>

\* the first prompt: the name and the description of the parser
AskParserInfo ==
    /\ ppc = "info"
    /\ ppc' = "events"
    /\ eventList' = ParserEvents
    /\ UNCHANGED <<eventsSelected, offered, parserEvents>>
    /\ UNCHANGED <<genVars, initVars, buildVars, registryVars>>

\* one round of the event question, the round kept or dropped, and the
\* next round when the operator wants one
AskEvents ==
    /\ ppc = "events"
    /\ Len(offered) < MaxEventRounds
    /\ \E round \in EventAnswers(eventList) :
          /\ round.again = "true" => Len(offered) + 1 < MaxEventRounds
          /\ offered' = Append(offered, [choices |-> eventList, answer |-> round])
          /\ eventsSelected' = collected(eventsSelected, round)
          /\ eventList' = remainingChoices(eventList, round)
          /\ ppc' = IF round.again = "true" THEN "events" ELSE "build"
    /\ UNCHANGED parserEvents
    /\ UNCHANGED <<genVars, initVars, buildVars, registryVars>>

\* the data of the parser is built and handed to the templates
BuildParser ==
    /\ ppc = "build"
    /\ parserEvents' = [i \in 1..Len(eventsSelected) |-> eventName(eventsSelected[i])]
    /\ ppc' = "done"
    /\ UNCHANGED <<eventList, eventsSelected, offered>>
    /\ UNCHANGED <<genVars, initVars, buildVars, registryVars>>

ParserNext ==
    \/ AskParserInfo
    \/ AskEvents
    \/ BuildParser

ParserSpec == ParserInit /\ [][ParserNext]_vars

----------------------------------------------------------------------------
(* Properties *)

WritesIssued == {i \in 1..Len(issued) : issued[i].type = "write"}

C2_LoopStopsOnNoMore ==
    /\ asked = Len(rules)
    /\ \A i \in 1..Len(rules) - 1 : rules[i].again = "true"
    /\ (pc = "askRules" /\ asked > 0) => rules[asked].again = "true"
    /\ pc \in {"build", "run", "done"} /\ results # Null /\ results.answers.multi =>
          /\ asked >= 1
          /\ rules[asked].again # "true"
          /\ rules[1].again # "true" => asked = 1
    /\ rulePackage # Null /\ rulePackage.isMulti =>
          /\ Len(rulePackage.rules) = asked
          /\ rules[1].again # "true" => Len(rulePackage.rules) <= 1

\* the first round holds no answer to "again": one round, and the run ends
C2_Witness ==
    /\ pc = "done"
    /\ ret = "true"
    /\ asked = 1
    /\ rules[1].again = Absent
    /\ Len(rulePackage.rules) = 1

WizardPast(where) ==
    CASE where = "extendConfig" -> configType = "predefined" /\ wpc \in {"result", "write", "install", "done"}
      [] where = "customConfig" -> configType = "custom" /\ wpc \in {"result", "write", "install", "done"}

\* C3: when no configuration package is published (predefined), or no
\* connector, no formatter or no rule is installed (custom), the init wizard
\* returns false and neither writes a file nor installs a package; with
\* connectors, formatters and rules but no parser it does not return false
C3_UnavailableAborts ==
    /\ \/ WizardPast("extendConfig") /\ configPackages = <<>>
       \/ WizardPast("customConfig")
          /\ (connectorKeys = <<>> \/ formattersKeys = <<>> \/ rulesKeys = <<>>)
       => /\ wpc \in {"result", "done"}
          /\ wpc = "done" => wret = "false"
          /\ writes = 0
          /\ rcFile = Null
          /\ installs = <<>>
    /\ WizardPast("customConfig") /\ parsersKeys = <<>>
       /\ connectorKeys # <<>> /\ formattersKeys # <<>> /\ rulesKeys # <<>>
       => wret # "false" /\ (wpc = "done" => writes = 1)

\* the custom path with connectors and formatters but no rule has returned
C3_Witness ==
    /\ wpc = "done"
    /\ wret = "false"
    /\ configType = "custom"
    /\ connectorKeys # <<>>
    /\ formattersKeys # <<>>
    /\ rulesKeys = <<>>

\* C4 (as claimed): a failed render or file operation reaches the caller as
\* an exception, in newRule and in the init wizard, never as false
C4_FailureIsException ==
    /\ failed # {} /\ pc = "done" => ret = "throw"
    /\ wpc = "done" /\ writes = 1 /\ rcFile = Null => wret = "throw"

\* C4 (amended): newRule catches a failed copy, render, mkdir or write and
\* returns false, and never throws; it returns false only then, when
\* actions.newRule is not set, or when the package could not be built.  The
\* init wizard throws when its write or its install fails, and returns false
\* only when extendConfig or customConfig found no resources.
C4_FailureOutcome ==
    /\ failed # {} => pc = "done" /\ ret = "false"
    /\ ret # "throw"
    /\ ret = "false" => ~newRuleFlag \/ failed # {} \/ rulePackage = Null
    /\ wpc = "done" /\ writes = 1 /\ rcFile = Null => wret = "throw"
    /\ wret = "false" <=> wpc = "done" /\ result = Null
    /\ wret = "false" => writes = 0 /\ errors # {}

\* a render failed and newRule returned false
C4_Witness ==
    /\ pc = "done"
    /\ ret = "false"
    /\ \E op \in failed : op.type = "render"

\* C5: once an operation has failed newRule has returned, and the failed
\* operation belongs to the last await issued: nothing of a later group was
\* issued after it; no operation is issued twice; and what a completed write, mkdir or copy put
\* on the disk is still there, whatever failed since
C5_FailureStopsRun ==
    /\ failed # {} => pc = "done"
    /\ \A op \in failed : SameAwait(op, issued[Len(issued)])
    /\ Cardinality(Range(issued)) = Len(issued)
    /\ \A op \in done :
          /\ op.type = "write" => \E e \in disk : e.path = TargetPath(op, rulePackage)
          /\ op.type = "mkdir" => mkdirTarget(op, rulePackage) \in dirs
          /\ op.type = "copy" => op.idx \in copied

\* the write of a rule's source failed, newRule returned false, and the
\* write of its test, issued with it, still completed; the common files stay
C5_Witness ==
    /\ ret = "false"
    /\ \E j \in 1..MaxRounds :
          /\ Op("write", "rule", j) \in failed
          /\ Op("write", "test", j) \in done
          /\ \E e \in disk : e.path = testPath(rulePackage.destination, rulePackage.rules[j])
    /\ Cardinality(disk) >= 5

\* C6: when the first template is rendered, every static copy has completed:
\* one copy (the files tree) for an official package, two for another (the
\* no-official-files tree, completed before the files tree is copied)
C6_CopiesBeforeTemplates ==
    LET copies    == {i \in 1..Len(issued) : issued[i].type = "copy"}
        templated == {i \in 1..Len(issued) : issued[i].type # "copy"}
    IN  /\ copies # {} \/ templated # {} => rulePackage # Null
        /\ \A i \in copies : issued[i].grp = "static"
        /\ \A i \in copies : rulePackage.official => issued[i] = Op("copy", "static", Files)
        /\ \A i \in copies : ~rulePackage.official =>
              /\ issued[1] = Op("copy", "static", NoOfficialFiles)
              /\ i > 1 => /\ i = 2
                          /\ issued[i] = Op("copy", "static", Files)
                          /\ issued[1] \in done
                          /\ NoOfficialFiles \in copied
        /\ templated # {} =>
              /\ Cardinality(copies) = IF rulePackage.official THEN 1 ELSE 2
              /\ \A i \in copies : issued[i] \in done /\ \A k \in templated : i < k
              /\ copied = IF rulePackage.official THEN {Files} ELSE {NoOfficialFiles, Files}

\* a package that is not official renders its first template
C6_Witness ==
    /\ rulePackage # Null
    /\ ~rulePackage.official
    /\ Op("render", "common", 1) \in Range(issued)
    /\ Cardinality(copied) = 2

\* C7: when a write of a templated file is issued, the mkdirp of the file's
\* directory was issued before it and has completed: the directory exists
C7_MkdirBeforeWrite ==
    \A i \in WritesIssued :
        LET op == issued[i]
        IN  /\ dirname(TargetPath(op, rulePackage)) \in dirs
            /\ Op("mkdir", op.grp, op.idx) \in done
            /\ \E k \in 1..(i - 1) : issued[k] = Op("mkdir", op.grp, op.idx)

\* the write of a rule's documentation is issued, its test being written
C7_Witness ==
    /\ Op("write", "doc", 1) \in Range(issued)
    /\ Op("write", "test", 1) \in done
    /\ Cardinality({d.dir : d \in dirs}) = 4

ItemGroups == {"rule", "test", "doc"}

\* C8: the source and the test operation of a rule are issued together; only
\* operations of the last await issued are not completed, so an await is
\* issued when every operation issued before it has completed; the common files are all written before the
\* first operation of a rule, and the files of a rule before the first
\* operation of the next one
C8_GroupsAwaited ==
    /\ \A i \in 1..Len(issued) :
          /\ issued[i].grp = "rule" =>
                i < Len(issued) /\ issued[i + 1] = [issued[i] EXCEPT !.grp = "test"]
          /\ issued[i].grp = "test" =>
                i > 1 /\ issued[i - 1] = [issued[i] EXCEPT !.grp = "rule"]
    /\ \A i \in 1..Len(issued) :
          issued[i] \notin done => SameAwait(issued[i], issued[Len(issued)])
    /\ \A k \in 1..Len(issued) :
          issued[k].grp \in ItemGroups =>
             /\ \A c \in 1..(IF rulePackage.official THEN 4 ELSE 5) :
                   Op("write", "common", c) \in done
             /\ \A j \in 1..(issued[k].idx - 1) :
                   /\ Op("write", "rule", j) \in done
                   /\ Op("write", "test", j) \in done
                   /\ rulePackage.isMulti => Op("write", "doc", j) \in done
             /\ issued[k].grp = "doc" =>
                   /\ Op("write", "rule", issued[k].idx) \in done
                   /\ Op("write", "test", issued[k].idx) \in done

\* the test of the second rule is written while the write of its source,
\* issued first, is still pending
C8_Witness ==
    /\ Op("write", "test", 2) \in done
    /\ Op("write", "rule", 2) \in Pending
    /\ pc = "run"

\* C9 (as claimed): no two writes of a run have the same target path
C9_DistinctTargets ==
    \A i, j \in WritesIssued :
        i # j => TargetPath(issued[i], rulePackage) # TargetPath(issued[j], rulePackage)

\* the files the claim lists for a package
ClaimedFiles(pkg) ==
    LET dest == pkg.destination
    IN  {Path(dest, "src", <<"i", "n", "d", "e", "x">>, "ts"),
         Path(dest, ".", <<"R", "E", "A", "D", "M", "E">>, "md"),
         Path(dest, ".", <<"t", "s", "c", "o", "n", "f", "i", "g">>, "json"),
         Path(dest, ".", <<"p", "a", "c", "k", "a", "g", "e">>, "json")}
        \cup (IF pkg.official THEN {} ELSE {Path(dest, ".", <<>>, "sonarwhalrc")})
        \cup {Path(dest, "src", pkg.rules[j].normalizedName, "ts") : j \in 1..Len(pkg.rules)}
        \cup {Path(dest, "tests", pkg.rules[j].normalizedName, "ts") : j \in 1..Len(pkg.rules)}
        \cup (IF pkg.isMulti
              THEN {Path(dest, "docs", pkg.rules[j].normalizedName, "md") : j \in 1..Len(pkg.rules)}
              ELSE {})

\* the number of writes the claim counts for a package
ClaimedWrites(pkg) ==
    4 + (IF pkg.official THEN 0 ELSE 1) + 2 * Len(pkg.rules)
      + (IF pkg.isMulti THEN Len(pkg.rules) ELSE 0)

IssuedOfType(type) == {i \in 1..Len(issued) : issued[i].type = type}

\* the renders issued for the entries of one group
RendersOfGroup(grp) == {i \in IssuedOfType("render") : issued[i].grp = grp}

\* a package that is not official, of two rule rounds, has been generated
CommunityMultiOfTwo ==
    /\ ret = "true"
    /\ ~rulePackage.official
    /\ rulePackage.isMulti
    /\ asked = 2

\* C11 (as claimed): for a community multi package of two rule rounds, 5
\* common files, 2 x 2 source and test files and 2 doc files are templated,
\* 9 templated files in total, after two static copies
C11_NineTemplatedFiles ==
    CommunityMultiOfTwo =>
        /\ Cardinality(RendersOfGroup("common")) = 5
        /\ Cardinality(RendersOfGroup("rule")) + Cardinality(RendersOfGroup("test")) = 4
        /\ Cardinality(RendersOfGroup("doc")) = 2
        /\ Cardinality(IssuedOfType("render")) = 9
        /\ Cardinality(IssuedOfType("write")) = 9

\* C11 (amended): for a community multi package of two rule rounds, 5 common
\* files, 2 x 2 source and test files and 2 doc files are templated, 11
\* templated files in total, each rendered once and written once, after the
\* two static copies have completed
C11_ElevenTemplatedFiles ==
    CommunityMultiOfTwo =>
        /\ Cardinality(RendersOfGroup("common")) = 5
        /\ Cardinality(RendersOfGroup("rule")) = 2
        /\ Cardinality(RendersOfGroup("test")) = 2
        /\ Cardinality(RendersOfGroup("doc")) = 2
        /\ Cardinality(IssuedOfType("render")) = 11
        /\ Cardinality(IssuedOfType("write")) = 11
        /\ IssuedOfType("copy") = {1, 2}
        /\ issued[1] \in done /\ issued[2] \in done
        /\ Len(issued) = 2 + 3 * 11

C11_Witness ==
    /\ CommunityMultiOfTwo
    /\ pc = "done"
    /\ Cardinality(copied) = 2
    /\ rulePackage.rules[1].normalizedName # rulePackage.rules[2].normalizedName

\* the entry whose rendered text a file on the disk must hold: the entry of
\* the last completed write to its path is not recorded, so any write to it
EntriesOf(p) == {op \in done : op.type = "write" /\ TargetPath(op, rulePackage) = p}

\* C12: every write is issued after the render of its own entry has
\* completed, and the text it puts on the disk is the text rendered for that
\* entry; when newRule returns true every entry planned has been rendered
\* and written, renders and writes being equal in number, and nothing failed
C12_TrueMeansAllWritten ==
    /\ \A i \in IssuedOfType("write") :
          /\ Op("render", issued[i].grp, issued[i].idx) \in done
          /\ \E k \in 1..(i - 1) : issued[k] = Op("render", issued[i].grp, issued[i].idx)
    /\ \A e \in disk :
          \E op \in EntriesOf(e.path) : e.content = compileTemplate(op, rulePackage)
    /\ ret = "true" =>
          /\ cursor = EndCursor
          /\ failed = {}
          /\ Range(issued) = done
          /\ Cardinality(IssuedOfType("render")) = Cardinality(IssuedOfType("write"))
          /\ Cardinality(IssuedOfType("write")) = ClaimedWrites(rulePackage)
          /\ \A i \in IssuedOfType("render") :
                Op("write", issued[i].grp, issued[i].idx) \in done

\* a single rule has been generated: six renders and six writes
C12_Witness ==
    /\ ret = "true"
    /\ ~rulePackage.isMulti
    /\ rulePackage.official
    /\ Cardinality(IssuedOfType("render")) = 6
    /\ Cardinality(done) = 19

\* s begins with p
StartsWith(s, p) == Len(p) <= Len(s) /\ SubSeq(s, 1, Len(p)) = p

\* C13: in a multi package the class name of every rule starts with the
\* pascal-cased normalized name of the package, the pascal-cased normalized
\* name of the rule and "Rule" following it, and the parentName of every rule
\* is the normalized name of the package; the one rule of a package that is
\* not multi has a class name without a prefix and an empty parentName
C13_ClassNamePrefix ==
    rulePackage # Null =>
        \A i \in 1..Len(rulePackage.rules) :
            LET rule == rulePackage.rules[i]
                own  == toPascalCase(rule.normalizedName) \o <<"Rule">>
            IN  IF rulePackage.isMulti
                THEN /\ rule.parentName = rulePackage.normalizedName
                     /\ StartsWith(rule.className, toPascalCase(rulePackage.normalizedName))
                     /\ rule.className = toPascalCase(rulePackage.normalizedName) \o own
                     /\ Len(rule.className) > Len(own)
                ELSE /\ rule.parentName = <<>>
                     /\ rule.className = own

\* the package "A x" holds the rule "index": its class is AXIndexRule
C13_Witness ==
    /\ rulePackage # Null
    /\ rulePackage.isMulti
    /\ rulePackage.normalizedName = <<"a", "-", "x">>
    /\ rulePackage.rules[1].className = <<"A", "X", "I", "n", "d", "e", "x", "Rule">>

\* the items a constructor built
BuiltItems ==
    CASE bpc = "item"    -> {boutput}
      [] bpc = "package" -> Range(boutput.rules)
      [] OTHER           -> {}

\* the answers the items were built from
BuiltFrom ==
    CASE bpc = "item"    -> {binput.data}
      [] bpc = "package" -> IF binput.data.multi THEN Range(binput.data.rules)
                            ELSE {binput.data}
      [] OTHER           -> {}

\* C14: every item built has the four flags dom, request, thirdPartyService
\* and jsInjection and no other, exactly one of them true, the one of the use
\* case answered; an item is built only from a use case of those four
C14_OneUseCaseFlag ==
    /\ \A item \in BuiltItems :
          /\ DOMAIN item.useCase = {"dom", "request", "thirdPartyService", "jsInjection"}
          /\ Cardinality({u \in DOMAIN item.useCase : item.useCase[u]}) = 1
    /\ \A data \in BuiltFrom : data.useCase \in AnsweredUseCases
    /\ bpc = "item" => boutput.useCase[binput.data.useCase]
    /\ bpc = "package" =>
          \A i \in 1..Len(boutput.rules) :
              LET data == IF binput.data.multi THEN binput.data.rules[i] ELSE binput.data
              IN  boutput.rules[i].useCase[data.useCase]

\* an item of the use case thirdPartyService is built
C14_Witness ==
    /\ bpc = "item"
    /\ binput.data.useCase = "thirdPartyService"
    /\ boutput.useCase.thirdPartyService
    /\ ~boutput.useCase.dom

\* C15: a package that is not multi holds one rule, built from the main
\* answers, no round being asked; a multi package holds one rule for each
\* round asked, in the order of the rounds, and at least one
C15_ItemsOfPackage ==
    rulePackage # Null =>
        IF rulePackage.isMulti
        THEN /\ Len(rulePackage.rules) >= 1
             /\ Len(rulePackage.rules) = asked
             /\ \A i \in 1..asked :
                   /\ rulePackage.rules[i].name = rules[i].name
                   /\ rulePackage.rules[i].description = escapeSafeString(rules[i].description)
                   /\ rulePackage.rules[i].useCase[rules[i].useCase]
        ELSE /\ Len(rulePackage.rules) = 1
             /\ asked = 0
             /\ rulePackage.rules[1].name = results.answers.name
             /\ rulePackage.rules[1].description = escapeSafeString(results.answers.description)
             /\ rulePackage.rules[1].useCase[results.answers.useCase]
             /\ rulePackage.rules[1].category = results.answers.category

\* a multi package of the rule "a" and then the rule "index"
C15_Witness ==
    /\ rulePackage # Null
    /\ rulePackage.isMulti
    /\ Len(rulePackage.rules) = 2
    /\ rulePackage.rules[1].name = <<"a">>
    /\ rulePackage.rules[2].name = <<"i", "n", "d", "e", "x">>

\* the rounds of questions(QuestionsType.rule) among the prompts
RulePrompts == {i \in 1..Len(prompts) : prompts[i] = "rule"}

\* C16: the main questions are asked once, before any other prompt; rounds
\* of rule questions are asked only when the main answers say multi, and
\* always then before the package is built; when the first copy, render,
\* mkdir or write is issued the package is built and every prompt has been
\* answered: the package holds a rule for every round there ever is
C16_PromptsBeforeFiles ==
    /\ prompts = <<>> <=> pc = "start" \/ (pc = "done" /\ ~newRuleFlag)
    /\ prompts # <<>> =>
          /\ prompts[1] = "main"
          /\ RulePrompts = 2..Len(prompts)
          /\ results # Null
          /\ RulePrompts # {} => results.answers.multi
          /\ Cardinality(RulePrompts) = asked
    /\ pc \in {"build", "run"} \/ rulePackage # Null =>
          (results.answers.multi <=> RulePrompts # {})
    /\ issued # <<>> =>
          /\ pc \in {"run", "done"}
          /\ rulePackage # Null
          /\ rulePackage.isMulti => Len(rulePackage.rules) = Cardinality(RulePrompts)
          /\ ~rulePackage.isMulti => RulePrompts = {}

\* two rounds were asked after the main questions, and the first copy is
\* issued
C16_Witness ==
    /\ prompts = <<"main", "rule", "rule">>
    /\ Len(issued) = 1
    /\ issued[1].type = "copy"

\* C17: when every awaited call returns or fails and the operator stops
\* asking for more rules, every run of newRule comes to have returned true
\* or false and stays so: whatever state it is in, the package built or not,
\* it is not left waiting there
C17_RunReturns == <>[](pc = "done" /\ ret \in {"true", "false"})

\* a multi package of two rounds has been generated and newRule returned
C17_Witness ==
    /\ pc = "done"
    /\ ret = "true"
    /\ rulePackage # Null
    /\ asked = MaxRounds
    /\ Pending = {}

\* the number of backslashes in a row right before the character at i
RECURSIVE BackslashesBefore(_, _)
BackslashesBefore(str, i) ==
    IF i > 1 /\ str[i - 1] = Backslash
    THEN 1 + BackslashesBefore(str, i - 1)
    ELSE 0

\* a backtick closes the template string it is put in unless an odd number of
\* backslashes precedes it: two backslashes are an escaped backslash
ClosesTemplateString(str, i) ==
    /\ str[i] = Backtick
    /\ BackslashesBefore(str, i) % 2 = 0

\* C18 (as claimed): in the description of every item and package built, no
\* backtick can close the template string the templates put it in, whatever
\* the description answered, a backslash before a backtick included
C18_BackticksEscaped ==
    bpc \in {"item", "package"} =>
        \A i \in 1..Len(boutput.description) :
            ~ClosesTemplateString(boutput.description, i)

\* the name '{prefix}-rule-{normalized name}' of the claim
ClaimedName(prefix, normalizedName) ==
    prefix \o <<"-">> \o <<"r", "u", "l", "e">> \o <<"-">> \o normalizedName

\* C19 (as claimed): the name of a package is the official or the community
\* prefix, then '-', 'rule', '-' and the normalized name, the prefix being
\* read with or without the character that ends it; the destination is the
\* working directory joined with 'rule-' and the normalized name
C19_PrefixDashKindDashName ==
    bpc = "package" =>
        LET normalizedName == normalizeStringByDelimiter(binput.data.name, "-")
            word == IF binput.data.official THEN <<"@sonarwhal">> ELSE <<"sonarwhal">>
            full == IF binput.data.official THEN <<"@sonarwhal", "/">>
                                            ELSE <<"sonarwhal", "-">>
        IN  /\ \/ boutput.packageName = ClaimedName(word, normalizedName)
               \/ boutput.packageName = ClaimedName(full, normalizedName)
            /\ boutput.destination =
                  [cwd |-> "cwd", folder |-> <<"r", "u", "l", "e", "-">> \o normalizedName]

\* C19 (amended): the name of a package is '@sonarwhal/' when it is official
\* and 'sonarwhal-' when it is not, chosen by the official flag alone, with
\* 'rule-' and the normalized name right after it; the destination is the
\* working directory joined with 'rule-' and the normalized name, for
\* official and other packages alike
C19_PackageNameAndDestination ==
    bpc = "package" =>
        LET normalizedName == normalizeStringByDelimiter(binput.data.name, "-")
        IN  /\ boutput.normalizedName = normalizedName
            /\ binput.data.official =>
                  boutput.packageName =
                      <<"@sonarwhal", "/", "r", "u", "l", "e", "-">> \o normalizedName
            /\ ~binput.data.official =>
                  boutput.packageName =
                      <<"sonarwhal", "-", "r", "u", "l", "e", "-">> \o normalizedName
            /\ boutput.destination =
                  [cwd |-> "cwd", folder |-> <<"r", "u", "l", "e", "-">> \o normalizedName]

\* the official package "A x" is built: @sonarwhal/rule-a-x in rule-a-x
C19_Witness ==
    /\ bpc = "package"
    /\ binput.data.official
    /\ binput.data.name = <<"A", " ", "x">>
    /\ boutput.packageName = <<"@sonarwhal", "/", "r", "u", "l", "e", "-", "a", "-", "x">>
    /\ boutput.destination.folder = <<"r", "u", "l", "e", "-", "a", "-", "x">>

AnsweredUseCase(i) ==
    IF results.answers.multi THEN results.rules[i].useCase
    ELSE results.answers.useCase

\* C21: the Map of the events has an entry for each of dom, request,
\* thirdPartyService and jsInjection and for nothing else, each entry a
\* sequence of at least one event; in every state of every run it is the Map
\* the module constructed; and the events of every rule of the package are
\* the entry of the use case answered for the rule, in the order of the entry
C21_RegistryTotalAndFixed ==
    /\ DOMAIN eventsMap = {"dom", "request", "thirdPartyService", "jsInjection"}
    /\ \A useCase \in DOMAIN eventsMap : Len(eventsMap[useCase]) >= 1
    /\ eventsMap = events
    /\ rulePackage # Null =>
          \A i \in 1..Len(rulePackage.rules) :
              rulePackage.rules[i].events = events[AnsweredUseCase(i)]

\* a package of one rule of the use case request was generated: the rule has
\* FetchStart, FetchEnd and FetchError, in that order
C21_Witness ==
    /\ pc = "done"
    /\ ret = "true"
    /\ ~results.answers.multi
    /\ results.answers.useCase = "request"
    /\ rulePackage.rules[1].events = <<"FetchStart", "FetchEnd", "FetchError">>
    /\ eventsMap.request = <<"FetchStart", "FetchEnd", "FetchError">>

\* C22: once the package is built it is the package the constructor returned
\* for the answers: no copy, directory, rendering or write that was issued,
\* completed or failed since has changed a field of it or of its rules, and
\* the package the instructions are logged from is that package
C22_PackageUnchangedAfterBuild ==
    rulePackage # Null =>
        /\ results.rules = rules
        /\ rulePackage = RulePackage(PackageData(results))

\* a multi package of two rules was generated, every operation completed,
\* and the package is still the one built
C22_Witness ==
    /\ pc = "done"
    /\ ret = "true"
    /\ results.answers.multi
    /\ Len(rulePackage.rules) = 2
    /\ issued # <<>>
    /\ Range(issued) = done
    /\ rulePackage.description = escapeSafeString(results.answers.description)

\* C23: every rule of a package built from what the questions gave, each
\* question asked when its when holds and only then, has an element type if
\* and only if its use case is dom
C23_ElementTypeIffDom ==
    rulePackage # Null =>
        \A i \in 1..Len(rulePackage.rules) :
            /\ rulePackage.rules[i].elementType # Absent
                  <=> rulePackage.rules[i].useCase.dom
            /\ rulePackage.rules[i].useCase.dom <=> AnsweredUseCase(i) = "dom"

\* a rule of the use case request was generated: it has no element type
C23_Witness ==
    /\ pc = "done"
    /\ ret = "true"
    /\ ~results.answers.multi
    /\ AnsweredUseCase(1) = "request"
    /\ rulePackage.rules[1].useCase.request
    /\ rulePackage.rules[1].elementType = Absent

\* C24: the normalized name of every rule and of every package built is the
\* normalization of the name typed, and normalizing it again gives it back:
\* normalize(normalize(s)) = normalize(s) for every name s, so the name the
\* class, the files and the package are called after is a fixed point
C24_NormalizeIdempotent ==
    /\ bpc \in {"item", "package"} =>
          /\ boutput.normalizedName = normalizeStringByDelimiter(binput.data.name, "-")
          /\ normalizeStringByDelimiter(
                 normalizeStringByDelimiter(binput.data.name, "-"), "-")
                 = normalizeStringByDelimiter(binput.data.name, "-")
    /\ \A item \in BuiltItems :
          normalizeStringByDelimiter(item.normalizedName, "-") = item.normalizedName

\* the name "A" with two spaces after it is normalized to a-, the spaces
\* being one run, and a- normalizes to itself
C24_Witness ==
    /\ bpc = "item"
    /\ binput.data.name = <<"A", " ", " ">>
    /\ boutput.normalizedName = <<"a", "-">>
    /\ normalizeStringByDelimiter(<<"a", "-">>, "-") = <<"a", "-">>

\* a use case the package is to be built from is no key of the Map
UnlistedAnswered ==
    /\ results # Null
    /\ IF results.answers.multi
       THEN \E i \in 1..Len(rules) : rules[i].useCase \notin DOMAIN events
       ELSE results.answers.useCase \notin DOMAIN events

\* C25: when the use case of a rule is missing or is none of dom, request,
\* thirdPartyService and jsInjection, the run ends in the constructors: it
\* returns false, no package and no rule is built, and no copy, no directory,
\* no rendering and no write is issued, so nothing is on the disk
C25_UnlistedUseCaseFailsAtBuild ==
    UnlistedAnswered =>
        /\ rulePackage = Null
        /\ pc # "run"
        /\ pc = "done" => ret = "false"
        /\ issued = <<>>
        /\ done = {} /\ failed = {}
        /\ disk = {} /\ dirs = {} /\ copied = {}

\* a multi package whose second round has no use case: the run is over,
\* false returned, nothing built and nothing issued
C25_Witness ==
    /\ pc = "done"
    /\ ret = "false"
    /\ newRuleFlag
    /\ results.answers.multi
    /\ Len(results.rules) = 2
    /\ results.rules[1].useCase = "dom"
    /\ results.rules[2].useCase = Absent
    /\ rulePackage = Null
    /\ issued = <<>>

\* the configuration chosen on the predefined path is not among the
\* configurations installed
ChosenNotInstalled ==
    /\ configType = "predefined"
    /\ getConfigurationName(result.packages[1]) \notin installed

\* C26: in a run of the init wizard that has a result, fs.writeFile is
\* called once and no more; installPackages is called at most once, only
\* after the write has completed, only on the predefined path, for the
\* packages of the result, and only when the configuration chosen is not
\* installed; and when nothing fails the wizard returns true with the file
\* written, having installed exactly when the configuration was missing
C26_WriteOnceThenInstall ==
    /\ writes <= 1
    /\ Len(installs) <= 1
    /\ (result # Null /\ wpc \in {"write", "install", "done"}) => writes = 1
    /\ installs # <<>> =>
          /\ writes = 1
          /\ rcFile = result.config
          /\ ChosenNotInstalled
          /\ installs = <<result.packages>>
    /\ (wpc = "done" /\ result # Null /\ wret # "throw") =>
          /\ wret = "true"
          /\ rcFile = result.config
          /\ installs # <<>> <=> ChosenNotInstalled

\* the predefined configuration chosen is installed already: the file
\* extends it, nothing is installed, and the wizard returned true
C26_Witness ==
    /\ wpc = "done"
    /\ wret = "true"
    /\ configType = "predefined"
    /\ getConfigurationName(result.packages[1]) \in installed
    /\ writes = 1
    /\ rcFile = [extends |-> <<getConfigurationName(result.packages[1])>>]
    /\ installs = <<>>

\* the operator checked at least one parser
ParsersSelected ==
    /\ answers.parsers # <<Absent>>
    /\ answers.parsers # <<>>

\* C27: the configuration customConfig returns has the connector answered as
\* the name of its connector, the formatter answered as its only formatter,
\* the rules checked, and no other, as the keys of its rules, each with the
\* severity error, and the parsers checked as its parsers
C27_CustomConfigRecordsSelections ==
    (configType = "custom" /\ result # Null) =>
        /\ result.config.connector.name = answers.connector
        /\ result.config.formatters = <<answers.formatter>>
        /\ DOMAIN result.config.rules = Range(answers.rules)
        /\ \A rule \in DOMAIN result.config.rules : result.config.rules[rule] = "error"
        /\ ParsersSelected =>
              /\ "parsers" \in DOMAIN result.config
              /\ result.config.parsers = answers.parsers

====
